---- MODULE Spec2Model ----
(***************************************************************************)
(* Model of src/controllers/users.js (UserCtrl): the account store, the    *)
(* follow / topic edge sets and the request handlers that act on them.     *)
(*                                                                         *)
(* A handler is an async function; every `await` on the store is one       *)
(* atomic step, and what runs between two awaits runs with it.  A request  *)
(* that needs more than one step occupies a slot of `reqs` between them.   *)
(* `me.save()` in follow/unfollow/followingTopic/unfollowingTopic is not   *)
(* awaited: the handler answers 204 in the step that issues the save, and  *)
(* the write reaches the store in a later step of its own.                 *)
(***************************************************************************)
EXTENDS Integers, Sequences, FiniteSets, TLC

\* ---------------------------------------------------------------- bounds
MaxUsers == 2
MaxTopics == 1
MaxProcs == 2
MaxEdges == 2
MaxRequests == 5
MaxFields == 3

UserIds == 1..MaxUsers
TopicIds == 0..MaxTopics
Procs == 1..MaxProcs

\* Names are sequences of characters (the listing matches them by regexp).
Names == { <<"a", "l">>, <<"B", "o">> }
Passwords == { "pw", "pw2" }
\* The passwords the modelled clients register with.
NewPasswords == { "pw" }

\* ----------------------------------------------------------------- state
VARIABLES
    User,     \* the users collection: _id -> document
    nextId,   \* the next _id the store hands out (ids are never reused)
    reqs,     \* per slot: the request in flight between two awaits
    resp,     \* the response the latest step sent, if it sent one
    nreq,     \* the number of requests received so far
    scn       \* the script of SpecTwice (constant under Spec)

vars == <<User, nextId, reqs, resp, nreq, scn>>

\* The topics collection; no handler of this controller writes it.
Topic == 1..MaxTopics

Idle == [op |-> "idle", pc |-> "idle"]
NoResp == [op |-> "none", status |-> 0]
NoScn == [phase |-> "off"]

\* ctx.state.user._id: the _id claim of a token login has signed.  Login
\* writes nothing and a token outlives its account, so every id ever
\* handed out can act.
Tokens == 1..(nextId - 1)

\* ------------------------------------------------------------ identifiers
\* An ObjectId reaches a handler as text: ctx.params.id is the path's text
\* and ctx.state.user._id the token's.  The store casts text to an
\* ObjectId, reading its hex digits in either case; toString() writes the
\* lower-case digits.  A text is the id it denotes and whether it is that
\* canonical spelling.
Params(S) == [oid : S, canon : BOOLEAN]

Cast(text) == text.oid

toString(oid) == [oid |-> oid, canon |-> TRUE]

Range(s) == { s[i] : i \in 1..Len(s) }

\* ------------------------------------------------------- store primitives
findById(text) ==
    IF Cast(text) \in DOMAIN User THEN {User[Cast(text)]} ELSE {}

NewUser(name, password) ==
    [name |-> name, password |-> password,
     following |-> <<>>, followingTopics |-> <<>>]

\* findByIdAndUpdate(id, body): the body's paths replace the document's.
Path(doc, body, f) == IF f \in DOMAIN body THEN body[f] ELSE doc[f]

Merge(doc, body) ==
    [name |-> Path(doc, body, "name"),
     password |-> Path(doc, body, "password"),
     following |-> Path(doc, body, "following"),
     followingTopics |-> Path(doc, body, "followingTopics")]

\* User.findOne({name}) / User.findOne({name, password}): the matching ids.
findByName(name) == { u \in DOMAIN User : User[u].name = name }

Insert(id, doc) == [u \in DOMAIN User \cup {id} |->
                      IF u = id THEN doc ELSE User[u]]

\* A removal that also takes the id out of the others' `following`.
DeleteCascade(id) ==
    LET Other(x) == x # id
    IN  [u \in DOMAIN User \ {id} |->
            [User[u] EXCEPT !.following = SelectSeq(@, Other)]]

Delete(id) == [u \in DOMAIN User \ {id} |-> User[u]]

\* ----------------------------------------------- the handlers' array code
\* me.following.map(id => id.toString()).includes(ctx.params.id)
includes(arr, text) == \E i \in 1..Len(arr) : toString(arr[i]) = text

\* me.following.map(id => id.toString()).indexOf(ctx.params.id), 1-based
\* (0 when absent).
indexOf(arr, text) ==
    IF includes(arr, text)
    THEN CHOOSE i \in 1..Len(arr) :
            /\ toString(arr[i]) = text
            /\ \A j \in 1..(i - 1) : toString(arr[j]) # text
    ELSE 0

\* me.following.push(ctx.params.id): the array casts what it is given.
push(arr, text) == Append(arr, Cast(text))

\* me.following.splice(index, 1)
splice(arr, index) ==
    [i \in 1..(Len(arr) - 1) |-> IF i < index THEN arr[i] ELSE arr[i + 1]]

\* --------------------------------------------------------------- routes
UserEdgeOps == {"follow", "unfollow"}
TopicEdgeOps == {"followingTopic", "unfollowingTopic"}
EdgeOps == UserEdgeOps \cup TopicEdgeOps

Kind(op) == IF op \in UserEdgeOps THEN "following" ELSE "followingTopics"

Reply(op, status) == [op |-> op, status |-> status]

Finish(p) == [reqs EXCEPT ![p] = Idle]

\* ----------------------------------------------------------------- guards
\* checkOwner without its throw.
checkOwnerNoThrow(me, text) == TRUE

\* checkOwner: ctx.params.id !== ctx.state.user._id compares the texts.
checkOwner(me, text) == text = toString(me)

\* checkUserExist without its throw: next() is reached whatever was found.
checkUserExistNoThrow(p, op, me, text) ==
    /\ reqs[p] = Idle
    /\ reqs' = [reqs EXCEPT ![p] =
                  [op |-> op, pc |-> "load", me |-> me, id |-> text]]
    /\ resp' = NoResp
    /\ UNCHANGED <<User, nextId>>

\* checkUserExist, then `await next()`: the request goes on to its handler.
checkUserExist(p, op, me, text) ==
    /\ reqs[p] = Idle
    /\ IF findById(text) = {}
       THEN /\ resp' = Reply(op, 412)
            /\ UNCHANGED reqs
       ELSE /\ reqs' = [reqs EXCEPT ![p] =
                          [op |-> op, pc |-> "load", me |-> me, id |-> text]]
            /\ resp' = NoResp
    /\ UNCHANGED <<User, nextId>>

checkTopicExist(p, op, me, text) ==
    /\ reqs[p] = Idle
    /\ IF Cast(text) \notin Topic
       THEN /\ resp' = Reply(op, 412)
            /\ UNCHANGED reqs
       ELSE /\ reqs' = [reqs EXCEPT ![p] =
                          [op |-> op, pc |-> "load", me |-> me, id |-> text]]
            /\ resp' = NoResp
    /\ UNCHANGED <<User, nextId>>

\* ---------------------------------------------------------- edge handlers
\* The step after `await User.findById(...)`: with me null, me.following
\* throws a TypeError and the request ends 500.  me.save() is issued, not
\* awaited: the slot keeps the document to write and 204 is sent now.
Loaded(p, op) ==
    /\ reqs[p].op = op
    /\ reqs[p].pc = "load"

Issue(p, arr) ==
    [reqs EXCEPT ![p] = [op |-> reqs[p].op, pc |-> "save",
                         me |-> reqs[p].me, doc |-> arr]]

Add(p, op) ==
    LET r == reqs[p]
        me == findById(toString(r.me))
    IN  /\ Loaded(p, op)
        /\ IF me = {}
           THEN /\ resp' = Reply(op, 500)
                /\ reqs' = Finish(p)
           ELSE LET arr == User[r.me][Kind(op)]
                IN  /\ resp' = Reply(op, 204)
                    /\ IF ~includes(arr, r.id)
                       THEN /\ Len(arr) < MaxEdges
                            /\ reqs' = Issue(p, push(arr, r.id))
                       ELSE reqs' = Finish(p)
        /\ UNCHANGED <<User, nextId>>

Remove(p, op) ==
    LET r == reqs[p]
        me == findById(toString(r.me))
    IN  /\ Loaded(p, op)
        /\ IF me = {}
           THEN /\ resp' = Reply(op, 500)
                /\ reqs' = Finish(p)
           ELSE LET arr == User[r.me][Kind(op)]
                    index == indexOf(arr, r.id)
                IN  /\ resp' = Reply(op, 204)
                    /\ IF index > 0
                       THEN reqs' = Issue(p, splice(arr, index))
                       ELSE reqs' = Finish(p)
        /\ UNCHANGED <<User, nextId>>

\* follow looking the target up again before it adds it.
followRecheck(p) ==
    IF Loaded(p, "follow") /\ findById(reqs[p].id) = {}
    THEN /\ resp' = Reply("follow", 412)
         /\ reqs' = Finish(p)
         /\ UNCHANGED <<User, nextId>>
    ELSE Add(p, "follow")

follow(p) == Add(p, "follow")

unfollow(p) == Remove(p, "unfollow")

followingTopic(p) == Add(p, "followingTopic")

unfollowingTopic(p) == Remove(p, "unfollowingTopic")

\* save writing the array to both edge paths of the document.
saveBothPaths(p) ==
    LET r == reqs[p]
    IN  /\ r.pc = "save"
        /\ r.op \in EdgeOps
        /\ User' = IF r.me \in DOMAIN User
                   THEN [User EXCEPT ![r.me].following = r.doc,
                                     ![r.me].followingTopics = r.doc]
                   ELSE User
        /\ reqs' = Finish(p)
        /\ resp' = NoResp
        /\ UNCHANGED nextId

\* The write me.save() issued reaches the store: the modified path is
\* replaced by the document's array; a document deleted meanwhile is not
\* written.  No response is sent here.
save(p) ==
    LET r == reqs[p]
    IN  /\ r.pc = "save"
        /\ r.op \in EdgeOps
        /\ User' = IF r.me \in DOMAIN User
                   THEN [User EXCEPT ![r.me][Kind(r.op)] = r.doc]
                   ELSE User
        /\ reqs' = Finish(p)
        /\ resp' = NoResp
        /\ UNCHANGED nextId

\* ------------------------------------------------------- account handlers
\* addUser up to `await User.findOne({name})` and the throw that follows.
InFlightAdds == Cardinality({ p \in Procs : reqs[p].op = "addUser" })

\* addUser without `if (repeatedUser) ctx.throw(409, ...)`.
addUserNoThrow(p, name, password) ==
    /\ reqs[p] = Idle
    /\ nextId + InFlightAdds <= MaxUsers
    /\ reqs' = [reqs EXCEPT ![p] =
                  [op |-> "addUser", pc |-> "save",
                   name |-> name, password |-> password]]
    /\ resp' = NoResp
    /\ UNCHANGED <<User, nextId>>

addUser(p, name, password) ==
    /\ reqs[p] = Idle
    /\ IF findByName(name) # {}
       THEN /\ resp' = Reply("addUser", 409)
            /\ UNCHANGED reqs
       ELSE /\ nextId + InFlightAdds <= MaxUsers
            /\ reqs' = [reqs EXCEPT ![p] =
                          [op |-> "addUser", pc |-> "save",
                           name |-> name, password |-> password]]
            /\ resp' = NoResp
    /\ UNCHANGED <<User, nextId>>

\* `await new User(ctx.request.body).save()` and the 200 that follows.
addUserSave(p) ==
    LET r == reqs[p]
    IN  /\ r.op = "addUser"
        /\ r.pc = "save"
        /\ User' = Insert(nextId, NewUser(r.name, r.password))
        /\ nextId' = nextId + 1
        /\ reqs' = Finish(p)
        /\ resp' = Reply("addUser", 200)

\* PATCH /users/:id runs checkOwner, then updateUserById: verifyParams
\* checks the types of the paths it lists and the whole body goes to
\* findByIdAndUpdate, whose result (null when no document has the id) is
\* answered 200.
updateUserById(me, text, body) ==
    /\ IF ~checkOwner(me, text)
       THEN /\ resp' = Reply("updateUserById", 403)
            /\ UNCHANGED User
       ELSE /\ resp' = Reply("updateUserById", 200)
            /\ User' = IF Cast(text) \in DOMAIN User
                       THEN [User EXCEPT ![Cast(text)] = Merge(@, body)]
                       ELSE User
    /\ UNCHANGED <<nextId, reqs>>

\* DELETE /users/:id runs checkOwner, then deleteUserById.
deleteUserById(me, text) ==
    /\ IF ~checkOwner(me, text)
       THEN /\ resp' = Reply("deleteUserById", 403)
            /\ UNCHANGED User
       ELSE IF findById(text) = {}
       THEN /\ resp' = Reply("deleteUserById", 412)
            /\ UNCHANGED User
       ELSE /\ resp' = Reply("deleteUserById", 204)
            /\ User' = Delete(Cast(text))
    /\ UNCHANGED <<nextId, reqs>>

\* The bodies the modelled clients PATCH: one path each.
Bodies ==
    { [name |-> n] : n \in Names }
        \cup { [following |-> <<u, u>>] : u \in UserIds }

\* ------------------------------------------------------------------ login
\* jwt.sign({name, _id}, ...): the token's claims.
sign(name, id) == [name |-> name, _id |-> id]

\* findOne given the name alone.
findOneByName(name, password) == findByName(name)

\* User.findOne(ctx.request.body) with the body {name, password}.
findOne(name, password) ==
    { u \in DOMAIN User :
        User[u].name = name /\ User[u].password = password }

login(name, password) ==
    /\ IF findOne(name, password) = {}
       THEN resp' = Reply("login", 412)
       ELSE \E u \in findOne(name, password) :
               resp' = [op |-> "login", status |-> 200,
                        token |-> sign(User[u].name, u)]
    /\ UNCHANGED <<User, nextId, reqs>>

\* ------------------------------------------------------------------ reads
\* The user schema: the paths it declares `select: false` and the others.
HiddenFields == {"password", "following", "followingTopics"}
ShownFields == {"_id", "name"}

\* A query text is a sequence of ";" and of words (runs of other
\* characters); an entry of fields.split(';') is the words between two
\* ";", and filter(Boolean) drops the entries that are empty.
Sep == ";"

RECURSIVE split(_)
split(text) ==
    IF \A i \in 1..Len(text) : text[i] # Sep
    THEN <<text>>
    ELSE LET i == CHOOSE k \in 1..Len(text) :
                     text[k] = Sep /\ \A j \in 1..(k - 1) : text[j] # Sep
         IN  <<SubSeq(text, 1, i - 1)>> \o split(SubSeq(text, i + 1, Len(text)))

NotEmpty(entry) == entry # <<>>

\* split(';').filter(Boolean) kept as it is split, empty entries too.
filterNothing(entries) == entries

filterBoolean(entries) == SelectSeq(entries, NotEmpty)

\* selectFields forcing every hidden path in.
selectFieldsAll(fields) == HiddenFields

\* select('+a +b'): the paths forced into the projection.
selectFields(fields) ==
    { f \in HiddenFields : <<f>> \in Range(filterBoolean(split(fields))) }

\* populate('a b'): the reference paths replaced by their documents.
popluateFields(fields) ==
    { f \in {"following", "followingTopics"} :
        <<f>> \in Range(filterBoolean(split(fields))) }

Ordered(S) ==
    LET In(i) == i \in S
    IN  SelectSeq([i \in 1..MaxUsers |-> i], In)

Summary(id) == [_id |-> id, name |-> User[id].name]

\* populate() of an array of references: the documents found, each with
\* the default projection; a reference to nothing is dropped.
Populated(f, arr) ==
    LET Found(id) == IF f = "following" THEN id \in DOMAIN User
                     ELSE id \in Topic
        Got(id) == IF f = "following" THEN Summary(id) ELSE [_id |-> id]
        kept == SelectSeq(arr, Found)
    IN  [i \in 1..Len(kept) |-> Got(kept[i])]

Value(id, f, populate) ==
    IF f = "_id" THEN id
    ELSE IF f \in populate THEN Populated(f, User[id][f])
    ELSE User[id][f]

Project(id, select, populate) ==
    [f \in ShownFields \cup select |-> Value(id, f, populate)]

Result(op, result) == [op |-> op, status |-> 200, result |-> result]

getUserById(text, fields) ==
    /\ IF findById(text) = {}
       THEN resp' = Reply("getUserById", 412)
       ELSE resp' = Result("getUserById",
                           Project(Cast(text), selectFields(fields),
                                   popluateFields(fields)))
    /\ UNCHANGED <<User, nextId, reqs>>

\* new RegExp(q, 'i') for a q of letters and of ".": a match is a place in
\* the name where every letter of q stands, compared without case, and
\* where "." stands for any character.
Lower(c) == IF c = "A" THEN "a" ELSE IF c = "B" THEN "b" ELSE c

RegExpI(q, name) ==
    \E k \in 0..(Len(name) - Len(q)) :
        \A i \in 1..Len(q) :
            q[i] = "." \/ Lower(name[k + i]) = Lower(q[i])

\* A number of the language is NaN or a rational, kept as its count of
\* quarters: the numbers met here are halves and products of two halves.
One == 4
NaN == [nan |-> TRUE, q |-> 0]
Num(q) == [nan |-> FALSE, q |-> q]
IsInteger(x) == ~x.nan /\ x.q % One = 0

\* A query parameter is a text or is not sent; `{ per_page = 2, page = 1 }`
\* puts the default in the place of one not sent (written here as the
\* text that `* 1` turns into it).
Undefined == "undefined"
Default(v, d) == IF v = Undefined THEN d ELSE v

\* v * 1: the number the text spells, NaN when it spells none.
Times1(v) ==
    CASE v = "0" -> Num(0)
      [] v = "1" -> Num(One)
      [] v = "2" -> Num(2 * One)
      [] v = "1.5" -> Num(One + One \div 2)
      [] OTHER -> NaN

Max(a, b) == IF a >= b THEN a ELSE b

\* Math.max: NaN as soon as one argument is.
mathMax(a, b) == IF a.nan \/ b.nan THEN NaN ELSE Num(Max(a.q, b.q))
Minus(a, b) == IF a.nan \/ b.nan THEN NaN ELSE Num(a.q - b.q)
Times(a, b) == IF a.nan \/ b.nan THEN NaN ELSE Num((a.q * b.q) \div One)

\* per_page and page * per_page as lines 40, 41 and 44 leave them.
limitOf(per_page) == mathMax(Times1(Default(per_page, "2")), Num(One))

skipOf(page, per_page) ==
    Times(Minus(mathMax(Times1(Default(page, "1")), Num(One)), Num(One)),
          limitOf(per_page))

\* find().limit(n).skip(k) over the matches in the store's order.
Page(ids, limit, skip) ==
    LET all == Ordered(ids)
        from == skip + 1
        to == IF skip + limit < Len(all) THEN skip + limit ELSE Len(all)
    IN  SubSeq(all, from, to)

\* What the store does with a limit or a skip that is no integer is not
\* decided here: the query fails, or it answers the matches up to some
\* count.
getAllUsers(q, page, per_page) ==
    LET perPage == limitOf(per_page)
        skip == skipOf(page, per_page)
        matches == { u \in DOMAIN User : RegExpI(q, User[u].name) }
        Found(users) ==
            Result("getAllUsers",
                   [i \in 1..Len(users) |-> Project(users[i], {}, {})])
    IN  /\ IF IsInteger(perPage) /\ IsInteger(skip)
           THEN resp' = Found(Page(matches, perPage.q \div One,
                                   skip.q \div One))
           ELSE \/ resp' = Reply("getAllUsers", 500)
                \/ \E l \in 1..MaxUsers :
                      resp' = Found(Page(matches, l, 0))
        /\ UNCHANGED <<User, nextId, reqs>>

\* getUserFollowers asking for the array that is exactly [id].
getUserFollowersExact(text) ==
    LET followers ==
            Ordered({ u \in DOMAIN User : User[u].following = <<Cast(text)>> })
    IN  /\ resp' = Result("getUserFollowers",
                          [i \in 1..Len(followers) |->
                              Project(followers[i], {}, {})])
        /\ UNCHANGED <<User, nextId, reqs>>

\* User.find({following: id}): the documents whose array holds the id.
getUserFollowers(text) ==
    LET followers ==
            Ordered({ u \in DOMAIN User :
                        \E i \in 1..Len(User[u].following) :
                            User[u].following[i] = Cast(text) })
    IN  /\ resp' = Result("getUserFollowers",
                          [i \in 1..Len(followers) |->
                              Project(followers[i], {}, {})])
        /\ UNCHANGED <<User, nextId, reqs>>

listFollowing(text) ==
    /\ IF findById(text) = {}
       THEN resp' = Reply("listFollowing", 412)
       ELSE resp' = Result("listFollowing",
                           Populated("following", User[Cast(text)].following))
    /\ UNCHANGED <<User, nextId, reqs>>

\* The query texts the modelled clients send.
FieldTexts ==
    { <<>>, <<"password">>, <<Sep, "following">>,
      <<"followingTopics", Sep, Sep, "password">>, <<"pass", "word">> }
Queries == { <<>>, <<"b">>, <<".">> }
PageInputs == { Undefined, "0", "2", "1.5" }
PerPageInputs == { Undefined, "0", "abc" }

\* ---------------------------------------------------------- specification
Init ==
    /\ User = [u \in {} |-> 0]
    /\ nextId = 1
    /\ reqs = [p \in Procs |-> Idle]
    /\ resp = NoResp
    /\ nreq = 0
    /\ scn = NoScn

\* A request is received (A is its first step); a request in flight goes on
\* after its await.
Receive(A) ==
    /\ nreq < MaxRequests
    /\ A
    /\ nreq' = nreq + 1
    /\ UNCHANGED scn

Resume(A) == A /\ UNCHANGED <<nreq, scn>>

Next ==
    \/ \E p \in Procs, op \in UserEdgeOps, me \in Tokens,
          text \in Params(UserIds) :
            Receive(checkUserExist(p, op, me, text))
    \/ \E p \in Procs, op \in TopicEdgeOps, me \in Tokens,
          text \in Params(TopicIds) :
            Receive(checkTopicExist(p, op, me, text))
    \/ \E p \in Procs, name \in Names, password \in NewPasswords :
            Receive(addUser(p, name, password))
    \/ \E me \in Tokens, text \in Params(UserIds), body \in Bodies :
            Receive(updateUserById(me, text, body))
    \/ \E me \in Tokens, text \in Params(UserIds) :
            Receive(deleteUserById(me, text))
    \/ \E name \in Names, password \in Passwords :
            Receive(login(name, password))
    \/ \E text \in Params(UserIds), fields \in FieldTexts :
            Receive(getUserById(text, fields))
    \/ \E q \in Queries, page \in PageInputs, per_page \in PerPageInputs :
            Receive(getAllUsers(q, page, per_page))
    \/ \E text \in Params(UserIds) : Receive(getUserFollowers(text))
    \/ \E text \in Params(UserIds) : Receive(listFollowing(text))
    \/ \E p \in Procs : Resume(follow(p))
    \/ \E p \in Procs : Resume(unfollow(p))
    \/ \E p \in Procs : Resume(followingTopic(p))
    \/ \E p \in Procs : Resume(unfollowingTopic(p))
    \/ \E p \in Procs : Resume(save(p))
    \/ \E p \in Procs : Resume(addUserSave(p))

Spec == Init /\ [][Next]_vars

\* ------------------------------------------ the same request, twice over
\* A client sends one add or remove, waits for its answer and sends it
\* again; the writes the two requests issue reach the store when they do.
\* scn.single is the edge array the first request leaves: the one it
\* issued to be written, or the stored one when it issued none.
ShortArrays(S) == {<<>>} \cup { <<x>> : x \in S }

\* Stores of MaxUsers accounts with names of their own and edge arrays
\* without duplicates.
NameOf(u) == [i \in 1..u |-> "a"]

TwiceStores ==
    { s \in [UserIds -> [name : { NameOf(u) : u \in UserIds },
                         password : NewPasswords,
                         following : ShortArrays(UserIds),
                         followingTopics : ShortArrays(Topic)]] :
        \A u \in UserIds : s[u].name = NameOf(u) }

Targets(op) == IF op \in UserEdgeOps THEN Params(UserIds) ELSE Params(Topic)

InitTwice ==
    /\ User \in TwiceStores
    /\ nextId = MaxUsers + 1
    /\ reqs = [p \in Procs |-> Idle]
    /\ resp = NoResp
    /\ nreq = 0
    /\ \E op \in EdgeOps, me \in UserIds :
          \E text \in Targets(op) :
             scn = [phase |-> "send", op |-> op, me |-> me, text |-> text,
                    sent |-> 0, ok |-> TRUE, single |-> <<>>]

Guard(p, op, me, text) ==
    IF op \in UserEdgeOps
    THEN checkUserExist(p, op, me, text)
    ELSE checkTopicExist(p, op, me, text)

Handler(p, op) ==
    CASE op = "follow" -> follow(p)
      [] op = "unfollow" -> unfollow(p)
      [] op = "followingTopic" -> followingTopic(p)
      [] op = "unfollowingTopic" -> unfollowingTopic(p)

\* The array request p leaves once its step has answered.
Leaves(p) ==
    IF reqs'[p].pc = "save" THEN reqs'[p].doc
    ELSE User[scn.me][Kind(scn.op)]

TwiceSend ==
    /\ scn.phase = "send"
    /\ scn.sent < 2
    /\ Guard(scn.sent + 1, scn.op, scn.me, scn.text)
    /\ nreq' = nreq + 1
    /\ scn' = [scn EXCEPT !.phase = "wait", !.sent = @ + 1]

TwiceAnswer ==
    /\ scn.phase = "wait"
    /\ Handler(scn.sent, scn.op)
    /\ scn' = [scn EXCEPT !.phase = IF scn.sent = 2 THEN "done" ELSE "send",
                          !.ok = @ /\ resp'.status = 204,
                          !.single = IF scn.sent = 1 THEN Leaves(1) ELSE @]
    /\ UNCHANGED nreq

TwiceSave == \E p \in Procs : save(p) /\ UNCHANGED <<nreq, scn>>

NextTwice == TwiceSend \/ TwiceAnswer \/ TwiceSave

SpecTwice == InitTwice /\ [][NextTwice]_vars

\* ------------------------------------------- the fields of getUserById
\* fields.split(';').filter(Boolean).map(v => `+${v}`).join(' ') handed to
\* select(): the paths forced in are the entries kept, one "+path" each.
revealSet(fields) == Range(filterBoolean(split(fields)))

\* The map of populate's argument: what takes the place of one entry, as
\* the paths populate() reads in it (the string put for `employments`
\* holds two, a blank between them).
populatePaths(v) ==
    IF v = <<"educations">> THEN { <<"educations.school">> }
    ELSE IF v = <<"employments">>
         THEN { <<"employments.company">>, <<"employments.job">> }
    ELSE { v }

expansionPaths(fields) ==
    UNION { populatePaths(v) : v \in Range(filterBoolean(split(fields))) }

\* The field lists a client may send: up to MaxFields characters, each a
\* ";" or a word.
FieldWords == { "educations", "employments", "name" }

FieldLists ==
    UNION { [1..n -> FieldWords \cup {Sep}] : n \in 0..MaxFields }

InitFields ==
    /\ User = [u \in {} |-> 0]
    /\ nextId = 1
    /\ reqs = [p \in Procs |-> Idle]
    /\ resp = NoResp
    /\ nreq = 0
    /\ \E fields \in FieldLists : scn = [phase |-> "fields", fields |-> fields]

\* Lines 54-60 of getUserById on the list of the request.
resolveFields ==
    /\ scn.phase = "fields"
    /\ scn' = [phase |-> "resolved", fields |-> scn.fields,
               selectFields |-> revealSet(scn.fields),
               popluateFields |-> expansionPaths(scn.fields)]
    /\ UNCHANGED <<User, nextId, reqs, resp, nreq>>

NextFields == resolveFields

SpecFields == InitFields /\ [][NextFields]_vars

\* ----------------------------------------------------------------- claims
NoDuplicates(arr) ==
    \A i, j \in 1..Len(arr) : arr[i] = arr[j] => i = j

\* C1: in every reachable state no user's `following` and no user's
\* `followingTopics` holds the same id twice.
C1_NoDuplicateEdges ==
    \A u \in DOMAIN User :
        /\ NoDuplicates(User[u].following)
        /\ NoDuplicates(User[u].followingTopics)

\* C2: the same add (or remove) sent twice in succession answers 204 both
\* times and, once its writes have reached the store, leaves the owner's
\* edge array as the first request alone left it.
C2_TwiceIsOnce ==
    (scn.phase = "done" /\ \A p \in Procs : reqs[p] = Idle)
        => /\ scn.ok
           /\ User[scn.me][Kind(scn.op)] = scn.single

\* C3: in the step in which an add answers 204 the target is in the
\* owner's stored edge set of that kind, and in the step in which a remove
\* answers 204 it is not.
C3_SuccessMeansStored ==
    [][\A p \in Procs :
         /\ (follow(p) \/ followingTopic(p)) /\ resp'.status = 204
              => Cast(reqs[p].id) \in
                    Range(User'[reqs[p].me][Kind(reqs[p].op)])
         /\ (unfollow(p) \/ unfollowingTopic(p)) /\ resp'.status = 204
              => Cast(reqs[p].id) \notin
                    Range(User'[reqs[p].me][Kind(reqs[p].op)])]_vars

\* C4: a follow/unfollow whose target is no user, or a topic add/remove
\* whose target is no topic, answers 412 in its guard, leaves the store
\* as it was and never reaches its handler: a request enters its handler
\* only from a guard that found the target.
Missing(op, text) ==
    IF op \in UserEdgeOps
    THEN Cast(text) \notin DOMAIN User
    ELSE Cast(text) \notin Topic

C4_GuardAborts ==
    [][/\ nreq' # nreq =>
            \A p \in Procs, op \in EdgeOps :
               (reqs[p] = Idle /\ (resp'.op = op \/ reqs'[p].op = op)) =>
                  \A me \in UserIds, text \in Params(UserIds \cup TopicIds) :
                     (Missing(op, text) /\ Guard(p, op, me, text))
                        => /\ resp' = Reply(op, 412)
                           /\ reqs' = reqs
                           /\ User' = User
       /\ \A p \in Procs :
              (reqs'[p].pc = "load" /\ reqs[p].pc # "load")
                => ~Missing(reqs'[p].op, reqs'[p].id)]_vars

C4_Witness ==
    /\ resp.op \in EdgeOps
    /\ resp.status = 412
    /\ DOMAIN User # {}

C6_CreateOrConflict ==
    [][/\ nreq' # nreq =>
            \A p \in Procs, name \in Names, password \in NewPasswords :
               addUser(p, name, password)
                 => IF \E u \in DOMAIN User : User[u].name = name
                    THEN /\ resp' = Reply("addUser", 409)
                         /\ User' = User
                         /\ reqs' = reqs
                    ELSE /\ reqs'[p].pc = "save"
                         /\ reqs'[p].name = name
                         /\ User' = User
       /\ nreq' = nreq =>
            \A p \in Procs :
               addUserSave(p)
                 => /\ resp' = Reply("addUser", 200)
                    /\ \E id \in UserIds \ DOMAIN User :
                          /\ DOMAIN User' = DOMAIN User \cup {id}
                          /\ User'[id].name = reqs[p].name
                    /\ \A u \in DOMAIN User : User'[u] = User[u]]_vars

C6_Witness ==
    /\ resp = Reply("addUser", 409)
    /\ Cardinality(DOMAIN User) = 1

\* C7: no two accounts of the store have the same name.
C7_UniqueNames ==
    \A u, v \in DOMAIN User : User[u].name = User[v].name => u = v


\* C8: a record a read returns holds a hidden field only if the request's
\* field list names it: getUserById's record holds password, following or
\* followingTopics only when an entry of `fields` is that name, and the
\* records of getAllUsers and getUserFollowers, like the documents
\* getUserById expands, hold none of the three.
Names1(fields) ==
    { f \in HiddenFields :
        \E i \in 1..Len(fields) :
            /\ fields[i] = f
            /\ i = 1 \/ fields[i - 1] = Sep
            /\ i = Len(fields) \/ fields[i + 1] = Sep }

NoHidden(records) ==
    \A i \in 1..Len(records) : DOMAIN records[i] \cap HiddenFields = {}

C8_HiddenUnlessAsked ==
    [][/\ (resp'.op = "getUserById" /\ resp'.status = 200) =>
            \A text \in Params(UserIds), fields \in FieldTexts :
               (resp'.result._id = Cast(text) /\ getUserById(text, fields))
                 => /\ DOMAIN resp'.result \cap HiddenFields
                          \subseteq Names1(fields)
                    /\ \A f \in DOMAIN resp'.result \cap popluateFields(fields) :
                           NoHidden(resp'.result[f])
       /\ (resp'.op \in {"getAllUsers", "getUserFollowers"}
           /\ resp'.status = 200)
            => NoHidden(resp'.result)]_vars

C8_Witness ==
    /\ resp.op = "getUserById"
    /\ resp.status = 200
    /\ DOMAIN resp.result = {"_id", "name", "password"}

\* C9: getUserFollowers(T) returns exactly the users whose stored
\* `following` holds T.
C9_FollowersAreThoseFollowing ==
    [][resp'.op = "getUserFollowers" =>
          \A text \in Params(UserIds) :
             getUserFollowers(text)
               => { resp'.result[i]._id : i \in 1..Len(resp'.result) }
                    = { u \in DOMAIN User :
                          Cast(text) \in Range(User[u].following) }]_vars

C9_Witness ==
    /\ resp.op = "getUserFollowers"
    /\ Len(resp.result) = 1
    /\ Cardinality(DOMAIN User) = 2

\* C10: login answers 200 exactly when an account has the name and the
\* password given; its token's claims are then that account's name and id
\* and nothing else; otherwise it answers 412 with no token; the store is
\* left as it was.
C10_Login ==
    [][resp'.op = "login" =>
          \A name \in Names, password \in Passwords :
             login(name, password)
               => /\ User' = User
                  /\ resp'.status = 200
                       <=> \E u \in DOMAIN User :
                              /\ User[u].name = name
                              /\ User[u].password = password
                  /\ resp'.status = 200
                       => /\ DOMAIN resp'.token = {"name", "_id"}
                          /\ resp'.token._id \in DOMAIN User
                          /\ User[resp'.token._id].name = name
                          /\ User[resp'.token._id].password = password
                          /\ resp'.token.name = name
                  /\ resp'.status # 200 => resp' = Reply("login", 412)]_vars

C10_Witness ==
    /\ resp.op = "login"
    /\ resp.status = 200
    /\ resp.token._id = 2

\* The entries of a ";"-separated list that are not empty: the maximal
\* runs of words between two ";" (or an end of the list).
Entries(text) ==
    LET n == Len(text)
        Run(x) == /\ x[1] <= x[2]
                  /\ \A k \in x[1]..x[2] : text[k] # Sep
                  /\ x[1] = 1 \/ text[x[1] - 1] = Sep
                  /\ x[2] = n \/ text[x[2] + 1] = Sep
    IN  { SubSeq(text, x[1], x[2]) : x \in { y \in (1..n) \X (1..n) : Run(y) } }

\* C11: for every field list the reveal set is exactly the set of its
\* non-empty entries, and the expansion set holds each such entry itself,
\* except that `educations` gives educations.school and `employments`
\* gives employments.company and employments.job; a list without entries
\* gives two empty sets.
C11_RevealAndExpansion ==
    scn.phase = "resolved" =>
       LET entries == Entries(scn.fields)
       IN  /\ scn.selectFields = entries
           /\ scn.popluateFields =
                (entries \ { <<"educations">>, <<"employments">> })
                \cup (IF <<"educations">> \in entries
                      THEN { <<"educations.school">> } ELSE {})
                \cup (IF <<"employments">> \in entries
                      THEN { <<"employments.company">>,
                             <<"employments.job">> } ELSE {})
           /\ entries = {} =>
                 scn.selectFields = {} /\ scn.popluateFields = {}

C11_Witness ==
    /\ scn.phase = "resolved"
    /\ scn.fields = << Sep, "employments", Sep >>
    /\ scn.selectFields = { <<"employments">> }
    /\ Cardinality(scn.popluateFields) = 2

\* q stands in the name, letters compared without case.
Contains(q, name) ==
    \E k \in 0..(Len(name) - Len(q)) :
        \A i \in 1..Len(q) : Lower(name[k + i]) = Lower(q[i])

\* C12: for every page and per_page sent to getAllUsers the limit and the
\* skip it computes are integers, limit >= 1 and skip >= 0, and it answers
\* the accounts whose names contain q (case ignored), from position skip
\* of them and at most limit of them.
C12_Pagination ==
    [][resp'.op = "getAllUsers" =>
          \A q \in Queries, page \in PageInputs,
             per_page \in PerPageInputs :
             getAllUsers(q, page, per_page)
               => LET limit == limitOf(per_page)
                      skip == skipOf(page, per_page)
                      matching == Ordered({ u \in DOMAIN User :
                                              Contains(q, User[u].name) })
                      to == Max(0, IF (skip.q + limit.q) \div One
                                         < Len(matching)
                                   THEN (skip.q + limit.q) \div One
                                   ELSE Len(matching))
                  IN  /\ IsInteger(limit)
                      /\ limit.q >= One
                      /\ IsInteger(skip)
                      /\ skip.q >= 0
                      /\ resp'.status = 200
                      /\ Len(resp'.result) <= limit.q \div One
                      /\ [i \in 1..Len(resp'.result) |-> resp'.result[i]._id]
                           = SubSeq(matching, skip.q \div One + 1, to)]_vars

\* C13: every follow, unfollow, followingTopic or unfollowingTopic request,
\* whoever the token names and whether or not that account is still
\* stored, is answered 204 (done, nothing returned), 412 (no such target)
\* or 403, and with nothing else.
C13_ListedOutcomes ==
    resp.op \in EdgeOps => resp.status \in {204, 412, 403}

\* The step of request p after its load: one of the four edge handlers.
EdgeHandler(p) ==
    follow(p) \/ unfollow(p) \/ followingTopic(p) \/ unfollowingTopic(p)

OtherFields(K) == {"name", "password", "following", "followingTopics"} \ {K}

\* C14: the write of an add or remove puts the array computed from what
\* was loaded in the place of whatever owner A's path K holds by then (so
\* a change another request stored there after the load is lost), and it
\* leaves every other owner's document and A's other paths as they are:
\* requests on other owners or on the other edge kind lose nothing by it.
\* The handler steps themselves write nothing.
C14_LastWriteWins ==
    [][\A p \in Procs :
          /\ EdgeHandler(p) => User' = User
          /\ save(p) =>
                LET r == reqs[p]
                IN  /\ DOMAIN User' = DOMAIN User
                    /\ \A u \in DOMAIN User \ {r.me} : User'[u] = User[u]
                    /\ r.me \in DOMAIN User =>
                          /\ User'[r.me][Kind(r.op)] = r.doc
                          /\ \A f \in OtherFields(Kind(r.op)) :
                                User'[r.me][f] = User[r.me][f]]_vars

\* Two follows of one owner: the one in slot p loaded the empty array and
\* was answered 204, the other's write of y has reached the store since,
\* and the write p is about to make does not hold y.
C14_Witness ==
    \E p \in Procs, x \in UserIds, y \in UserIds :
       /\ x # y
       /\ reqs[p].op = "follow"
       /\ reqs[p].pc = "save"
       /\ reqs[p].doc = <<x>>
       /\ reqs[p].me \in DOMAIN User
       /\ User[reqs[p].me].following = <<y>>
       /\ User[reqs[p].me].followingTopics = <<>>

\* C15: follow does not look the target up again after checkUserExist:
\* whenever the acting account is stored, its step answers 204 and, the
\* target not being in the array yet, issues the write that holds it,
\* whether or not the target is still stored; and the write stores the
\* array as issued.
C15_GuardNotRechecked ==
    [][\A p \in Procs :
          /\ follow(p) /\ reqs[p].me \in DOMAIN User =>
                /\ resp' = Reply("follow", 204)
                /\ ~includes(User[reqs[p].me].following, reqs[p].id) =>
                      /\ reqs'[p].pc = "save"
                      /\ Cast(reqs[p].id) \in Range(reqs'[p].doc)
          /\ save(p) /\ reqs[p].op = "follow"
             /\ reqs[p].me \in DOMAIN User =>
                User'[reqs[p].me].following = reqs[p].doc]_vars

\* Four requests (two accounts created, follow, delete): the delete of b
\* completed after follow's guard passed, and follow has just answered 204
\* and issued the write holding b.
C15_Witness ==
    \E p \in Procs, b \in UserIds :
       /\ nreq = 4
       /\ resp = Reply("follow", 204)
       /\ reqs[p].op = "follow"
       /\ reqs[p].pc = "save"
       /\ reqs[p].doc = <<b>>
       /\ reqs[p].me \in DOMAIN User
       /\ b \notin DOMAIN User
       /\ b < nextId

Without(arr, t) ==
    LET Other(x) == x # t
    IN  SelectSeq(arr, Other)

\* C17: an add or remove by owner A on edge kind K changes nothing but A's
\* array of kind K, and there only whether one id t is in it: the other
\* ids keep their places, and where t is in the array before and after (or
\* in neither) the array is as it was.
C17_OnlyTheTarget ==
    [][\A p \in Procs :
          /\ EdgeHandler(p) => User' = User
          /\ save(p) =>
                LET r == reqs[p]
                    K == Kind(r.op)
                IN  /\ DOMAIN User' = DOMAIN User
                    /\ \A u \in DOMAIN User \ {r.me} : User'[u] = User[u]
                    /\ r.me \in DOMAIN User =>
                          /\ \A f \in OtherFields(K) :
                                User'[r.me][f] = User[r.me][f]
                          /\ \E t \in UserIds \cup TopicIds :
                                LET old == User[r.me][K]
                                    new == User'[r.me][K]
                                IN  /\ Without(new, t) = Without(old, t)
                                    /\ (t \in Range(old) <=> t \in Range(new))
                                          => new = old]_vars

====
